---- MODULE Spec2Model ----
(***************************************************************************)
(* Model of mpr-research-data.py: one batch run that loads its             *)
(* configuration from the process environment, connects to the database    *)
(* and to the GCP bucket, lists the courses, retrieves the course data and *)
(* uploads one TSV object per course.                                      *)
(*                                                                         *)
(* The run is sequential; pc is the position of main().  The process       *)
(* environment is an input fixed before the run starts; the answers of the *)
(* database and of the object store are chosen when the call is made.      *)
(***************************************************************************)
EXTENDS Integers, Sequences, FiniteSets, TLC

VARIABLES
    env,               \* os.environ: a function from the names that are set to strings
    pc,                \* position of the run
    config,            \* the Config object's fields
    envImportSuccess,  \* local of Config.setFromEnv
    rootLevel,         \* logging.root.level
    log,               \* the records handed to logging.* so far
    fetched,           \* names passed to Config.configFetch so far, in call order
    calls,             \* the functions main() has called so far, in call order
    courseDF,          \* result of courseQueryMaker
    retrieveDF,        \* result of retrieveQueryMaker
    rowIdx,            \* sliceAndPushToGCP: number of courseDF rows iterated
    allSliced,         \* sliceAndPushToGCP local
    allSaved,          \* sliceAndPushToGCP local
    uploads,           \* blob.upload_from_string calls made so far
    bucket,            \* objects stored in the bucket by this run
    exitStatus,        \* process exit status, -1 while running
    exitMsg            \* argument of sys.exit, "" if none

vars == <<env, pc, config, envImportSuccess, rootLevel, log, fetched, calls,
          courseDF, retrieveDF, rowIdx, allSliced, allSaved, uploads, bucket,
          exitStatus, exitMsg>>

----------------------------------------------------------------------------
(* Bounds *)

MaxCourses == 2     \* rows of the course-list result
MaxRecords == 2     \* rows of the course-data result

----------------------------------------------------------------------------
(* Python values: None, str, int and dict (a dict is kept by its size). *)

PyNone    == [t |-> "NoneType", s |-> "", n |-> 0]
PyStr(x)  == [t |-> "str", s |-> x, n |-> 0]
PyInt(i)  == [t |-> "int", s |-> "", n |-> i]
PyDict(k) == [t |-> "dict", s |-> "", n |-> k]

\* bool(v)
Truthy(v) ==
    CASE v.t = "NoneType" -> FALSE
      [] v.t = "str"      -> v.s # ""
      [] v.t = "int"      -> v.n # 0
      [] v.t = "dict"     -> v.n # 0

\* str(v)
StrOf(v) ==
    CASE v.t = "NoneType" -> "None"
      [] v.t = "str"      -> v.s
      [] v.t = "int"      -> ToString(v.n)
      [] v.t = "dict"     -> "{...}"

\* The result of a cast: the value, or ValueError raised.
Ok(v)      == [ok |-> TRUE, v |-> v]
ValueError == [ok |-> FALSE, v |-> PyNone]

\* casting=str
CastStr(v) == Ok(PyStr(StrOf(v)))

\* The decimal literals that occur in the environments considered.
IntLiterals == ("0" :> 0) @@ ("4" :> 4) @@ ("3306" :> 3306)

\* casting=int : an int stays, a decimal literal is parsed, anything else
\* raises ValueError.
CastInt(v) ==
    CASE v.t = "int" -> Ok(v)
      [] v.t = "str" /\ v.s \in DOMAIN IntLiterals -> Ok(PyInt(IntLiterals[v.s]))
      [] OTHER -> ValueError

\* The JSON texts that occur in the environments considered, with the size of
\* the object they denote.
JsonObjects == ("{}" :> 0) @@ ("{\"type\": \"service_account\"}" :> 1)

\* casting=lambda x: json.loads(str(x)) : text that is no JSON ("None" for an
\* absent variable) raises JSONDecodeError, a ValueError.
CastJson(v) ==
    IF StrOf(v) \in DOMAIN JsonObjects
    THEN Ok(PyDict(JsonObjects[StrOf(v)]))
    ELSE ValueError

NoCast(v) == Ok(v)
NoValidation(v) == TRUE

\* validation=lambda x: x > 0
Positive(v) == v.n > 0

----------------------------------------------------------------------------
(* The filesystem the run sees. *)

Dirs  == {"queries", "sql"}
Files == {<<"queries", "courseQuery.sql">>, <<"queries", "retrieveQuery.sql">>,
          <<"sql", "courseQuery.sql">>}

\* validation=lambda x: os.path.isdir(x)
IsDir(v) == v.s \in Dirs

\* validation=lambda x: os.path.isfile(os.path.join(folder, x))
IsFileIn(folder, v) == <<folder.s, v.s>> \in Files

----------------------------------------------------------------------------
(* logging *)

INFO == 20
NameToLevel == ("CRITICAL" :> 50) @@ ("ERROR" :> 40) @@ ("WARNING" :> 30) @@
               ("INFO" :> 20) @@ ("DEBUG" :> 10) @@ ("NOTSET" :> 0)

LogRec(level, msg, item) == [level |-> level, msg |-> msg, item |-> item]

\* str.upper() on the level names considered
UpperTable == ("debug" :> "DEBUG") @@ ("bogus" :> "BOGUS")
Upper(s) == IF s \in DOMAIN UpperTable THEN UpperTable[s] ELSE s

\* logging.getLevelName(x) for a str x: the number of a known name, else the
\* text "Level x".
GetLevelName(s) ==
    IF s \in DOMAIN NameToLevel THEN PyInt(NameToLevel[s])
    ELSE PyStr("Level " \o s)

\* Logger.setLevel(x): an int is taken, a known name is taken, any other
\* str raises ValueError.
SetLevel(x) ==
    CASE x.t = "int" -> Ok(x)
      [] x.t = "str" /\ x.s \in DOMAIN NameToLevel -> Ok(PyInt(NameToLevel[x.s]))
      [] OTHER -> ValueError

----------------------------------------------------------------------------
(* The process environment *)

Unset == "<unset>"

QueryTypes == <<"course", "retrieve">>
QueryVar   == [course |-> "COURSE_QUERY", retrieve |-> "RETRIEVE_QUERY"]
CredParts  == <<"NAME", "USER", "PASSWORD", "HOST", "PORT">>

EnvNames == {"LOG_LEVEL", "GCLOUD_BUCKET", "NUMBER_OF_MONTHS", "QUERY_FOLDER",
             "COURSE_QUERY", "RETRIEVE_QUERY", "DB_NAME", "DB_USER",
             "DB_PASSWORD", "DB_HOST", "DB_PORT", "GCP_KEY"}

\* The settings considered for each variable; Unset stands for "not set".
EnvChoices(name) ==
    CASE name = "LOG_LEVEL"        -> {Unset, "debug", "bogus"}
      [] name = "GCLOUD_BUCKET"    -> {Unset, ""}
      [] name = "NUMBER_OF_MONTHS" -> {Unset, "0", "four"}
      [] name = "QUERY_FOLDER"     -> {Unset, "sql", "nodir"}
      [] name = "COURSE_QUERY"     -> {Unset, "missing.sql"}
      [] name = "RETRIEVE_QUERY"   -> {Unset}
      [] name = "DB_NAME"          -> {Unset, "mpr"}
      [] name = "DB_USER"          -> {Unset, "reader"}
      [] name = "DB_PASSWORD"      -> {Unset, "secret"}
      [] name = "DB_HOST"          -> {Unset, "dbhost"}
      [] name = "DB_PORT"          -> {Unset, "0"}
      [] name = "GCP_KEY"          -> {Unset, "{}", "{\"type\": \"service_account\"}"}

\* Every environment considered: one setting per variable, the variables that
\* are not set left out of the domain.
EnvSettings ==
    [LOG_LEVEL : EnvChoices("LOG_LEVEL"), GCLOUD_BUCKET : EnvChoices("GCLOUD_BUCKET"),
     NUMBER_OF_MONTHS : EnvChoices("NUMBER_OF_MONTHS"),
     QUERY_FOLDER : EnvChoices("QUERY_FOLDER"), COURSE_QUERY : EnvChoices("COURSE_QUERY"),
     RETRIEVE_QUERY : EnvChoices("RETRIEVE_QUERY"), DB_NAME : EnvChoices("DB_NAME"),
     DB_USER : EnvChoices("DB_USER"), DB_PASSWORD : EnvChoices("DB_PASSWORD"),
     DB_HOST : EnvChoices("DB_HOST"), DB_PORT : EnvChoices("DB_PORT"),
     GCP_KEY : EnvChoices("GCP_KEY")]

Environments ==
    { [n \in {m \in EnvNames : f[m] # Unset} |-> f[n]] : f \in EnvSettings }

\* os.environ.get(name, default)
EnvironGet(name, default) ==
    IF name \in DOMAIN env THEN PyStr(env[name]) ELSE default

----------------------------------------------------------------------------
(* Config *)

\* Config.__init__
ConfigDefaults ==
    [logLevel           |-> PyInt(INFO),
     targetBucketName   |-> PyStr("mpr-research-data-uploads"),
     numberOfMonths     |-> PyInt(4),
     defaultQueryFolder |-> PyStr("queries"),
     queryTemplateDict  |-> [course   |-> PyStr("courseQuery.sql"),
                             retrieve |-> PyStr("retrieveQuery.sql")],
     dbParams           |-> [NAME |-> PyNone, USER |-> PyNone, PASSWORD |-> PyNone,
                             HOST |-> PyNone, PORT |-> PyInt(3306)],
     gcpParams          |-> PyDict(0)]

\* casting(value) for the callables setFromEnv passes as casting=
ApplyCast(casting, value) ==
    CASE casting = "str"        -> CastStr(value)
      [] casting = "int"        -> CastInt(value)
      [] casting = "json.loads" -> CastJson(value)
      [] casting = "None"       -> NoCast(value)

\* validation(value) for the callables setFromEnv passes as validation=; the
\* isfile lambda reads self.defaultQueryFolder when it is called.
ApplyValidation(validation, value) ==
    CASE validation = "x > 0"  -> Positive(value)
      [] validation = "isdir"  -> IsDir(value)
      [] validation = "isfile" -> IsFileIn(config.defaultQueryFolder, value)
      [] validation = "None"   -> NoValidation(value)

\* Config.configFetch: the value returned and the records it logs.
configFetch(name, default, casting, validation) ==
    LET value == EnvironGet(name, default)
        cast  == ApplyCast(casting, value)
    IN  IF ~cast.ok
        THEN [value |-> PyNone, logs |-> <<LogRec("ERROR", "Casting error", name)>>]
        ELSE IF ~ApplyValidation(validation, cast.v)
        THEN [value |-> PyNone, logs |-> <<LogRec("ERROR", "Validation error", name)>>]
        ELSE [value |-> cast.v, logs |-> <<>>]

\* Variant: the flag follows the last field only.
UpdateSuccess_LastOnly(value, success) == Truthy(value)

\* envImportSuccess = False if not <value> or not envImportSuccess else True
UpdateSuccess(value, success) ==
    IF ~Truthy(value) \/ ~success THEN FALSE ELSE TRUE

\* Variant: the query filenames are checked whatever the folder is.
FolderIsStr_Always(v) == TRUE

\* if type(self.defaultQueryFolder) == str
FolderIsStr(v) == v.t = "str"

\* Variant: the flag is not looked at.
ImportFailed_Never(success) == FALSE

\* if not envImportSuccess
ImportFailed(success) == ~success

\* Variant: sys.exit() without an argument, exit status 0.
SysExit_Zero(msg) ==
    /\ pc' = "exited"
    /\ exitStatus' = 0
    /\ exitMsg' = msg

\* sys.exit(msg): the message goes to stderr and the exit status is 1.
SysExit(msg) ==
    /\ pc' = "exited"
    /\ exitStatus' = 1
    /\ exitMsg' = msg

ConfigExitMsg == "Exiting due to configuration parameter import problems."

dataVars     == <<courseDF, retrieveDF, rowIdx, allSliced, allSaved, uploads, bucket>>
pipelineVars == <<calls, courseDF, retrieveDF, rowIdx, allSliced, allSaved, uploads, bucket>>
configVars   == <<env, config, envImportSuccess, rootLevel, fetched>>

\* main, line 237-238: Config() is built and setFromEnv is entered.
\* setFromEnv, lines 177-192: LOG_LEVEL is read, upper-cased and handed to the
\* root logger; a level the logger rejects is only warned about.
SetLogLevel ==
    /\ pc = "LOG_LEVEL"
    /\ LET level == PyStr(Upper(StrOf(EnvironGet("LOG_LEVEL", config.logLevel))))
           res   == SetLevel(GetLevelName(level.s))
       IN  /\ config' = [config EXCEPT !.logLevel = level]
           /\ IF res.ok
              THEN /\ rootLevel' = res.v.n
                   /\ log' = log
              ELSE /\ rootLevel' = rootLevel
                   /\ log' = Append(log, LogRec("WARNING", "Validation error", "LOG_LEVEL"))
    /\ envImportSuccess' = TRUE
    /\ calls' = Append(calls, "setFromEnv")
    /\ pc' = "GCLOUD_BUCKET"
    /\ UNCHANGED <<env, fetched, exitStatus, exitMsg>>
    /\ UNCHANGED dataVars

\* setFromEnv, lines 194-196
FetchBucket ==
    /\ pc = "GCLOUD_BUCKET"
    /\ LET r == configFetch("GCLOUD_BUCKET", config.targetBucketName, "str", "None")
       IN  /\ config' = [config EXCEPT !.targetBucketName = r.value]
           /\ log' = log \o r.logs
           /\ envImportSuccess' = UpdateSuccess(r.value, envImportSuccess)
    /\ fetched' = Append(fetched, "GCLOUD_BUCKET")
    /\ pc' = "NUMBER_OF_MONTHS"
    /\ UNCHANGED <<env, rootLevel, exitStatus, exitMsg>>
    /\ UNCHANGED pipelineVars

\* setFromEnv, lines 198-200
FetchMonths ==
    /\ pc = "NUMBER_OF_MONTHS"
    /\ LET r == configFetch("NUMBER_OF_MONTHS", config.numberOfMonths, "int", "x > 0")
       IN  /\ config' = [config EXCEPT !.numberOfMonths = r.value]
           /\ log' = log \o r.logs
           /\ envImportSuccess' = UpdateSuccess(r.value, envImportSuccess)
    /\ fetched' = Append(fetched, "NUMBER_OF_MONTHS")
    /\ pc' = "QUERY_FOLDER"
    /\ UNCHANGED <<env, rootLevel, exitStatus, exitMsg>>
    /\ UNCHANGED pipelineVars

\* setFromEnv, lines 202-206: the query filenames are checked only when the
\* folder came back as a str.
FetchQueryFolder ==
    /\ pc = "QUERY_FOLDER"
    /\ LET r == configFetch("QUERY_FOLDER", config.defaultQueryFolder, "str", "isdir")
       IN  /\ config' = [config EXCEPT !.defaultQueryFolder = r.value]
           /\ log' = log \o r.logs
           /\ envImportSuccess' = UpdateSuccess(r.value, envImportSuccess)
           /\ pc' = IF FolderIsStr(r.value) THEN QueryVar[QueryTypes[1]]
                                            ELSE "DB_" \o CredParts[1]
    /\ fetched' = Append(fetched, "QUERY_FOLDER")
    /\ UNCHANGED <<env, rootLevel, exitStatus, exitMsg>>
    /\ UNCHANGED pipelineVars

\* setFromEnv, lines 207-212: one iteration of the loop over queryTemplateDict
FetchQueryTemplate ==
    \E i \in 1..Len(QueryTypes) :
        LET queryType == QueryTypes[i]
            r == configFetch(QueryVar[queryType], config.queryTemplateDict[queryType],
                             "str", "isfile")
        IN  /\ pc = QueryVar[queryType]
            /\ config' = [config EXCEPT !.queryTemplateDict[queryType] = r.value]
            /\ log' = log \o r.logs
            /\ envImportSuccess' = UpdateSuccess(r.value, envImportSuccess)
            /\ fetched' = Append(fetched, QueryVar[queryType])
            /\ pc' = IF i < Len(QueryTypes) THEN QueryVar[QueryTypes[i + 1]]
                                            ELSE "DB_" \o CredParts[1]
            /\ UNCHANGED <<env, rootLevel, exitStatus, exitMsg>>
            /\ UNCHANGED pipelineVars

\* setFromEnv, lines 214-221: one iteration of the loop over dbParams
FetchDBParam ==
    \E i \in 1..Len(CredParts) :
        LET credPart == CredParts[i]
            r == IF credPart = "PORT"
                 THEN configFetch("DB_" \o credPart, config.dbParams[credPart], "int", "x > 0")
                 ELSE configFetch("DB_" \o credPart, config.dbParams[credPart], "str", "None")
        IN  /\ pc = "DB_" \o credPart
            /\ config' = [config EXCEPT !.dbParams[credPart] = r.value]
            /\ log' = log \o r.logs
            /\ envImportSuccess' = UpdateSuccess(r.value, envImportSuccess)
            /\ fetched' = Append(fetched, "DB_" \o credPart)
            /\ pc' = IF i < Len(CredParts) THEN "DB_" \o CredParts[i + 1] ELSE "GCP_KEY"
            /\ UNCHANGED <<env, rootLevel, exitStatus, exitMsg>>
            /\ UNCHANGED pipelineVars

\* setFromEnv, lines 223-225
FetchGCPKey ==
    /\ pc = "GCP_KEY"
    /\ LET r == configFetch("GCP_KEY", PyNone, "json.loads", "None")
       IN  /\ config' = [config EXCEPT !.gcpParams = r.value]
           /\ log' = log \o r.logs
           /\ envImportSuccess' = UpdateSuccess(r.value, envImportSuccess)
    /\ fetched' = Append(fetched, "GCP_KEY")
    /\ pc' = "checkImport"
    /\ UNCHANGED <<env, rootLevel, exitStatus, exitMsg>>
    /\ UNCHANGED pipelineVars

\* setFromEnv, lines 227-230
CheckImport ==
    /\ pc = "checkImport"
    /\ IF ImportFailed(envImportSuccess)
       THEN /\ SysExit(ConfigExitMsg)
            /\ log' = log
       ELSE /\ pc' = "makeDBConnection"
            /\ log' = Append(log, LogRec("INFO", "All configuration parameters set up successfully.", ""))
            /\ UNCHANGED <<exitStatus, exitMsg>>
    /\ UNCHANGED <<env, config, envImportSuccess, rootLevel, fetched>>
    /\ UNCHANGED pipelineVars

----------------------------------------------------------------------------
(* Connections *)

DBExitMsg       == "Exiting due to failed DB connection."
BucketExitMsg   == "Exiting due to invalid bucket name."
GCPExitMsg      == "Exiting due to failed GCP connection."
CourseExitMsg   == "Exiting due to failure in Course List retrieval."
NoCoursesMsg    == "Exiting due to no courses being found in current configuration."
RetrieveExitMsg == "Exiting due to failure in Course Data retrieval."

\* makeDBConnection: engine.connect() succeeds or raises OperationalError.
MakeDBConnection ==
    /\ pc = "makeDBConnection"
    /\ calls' = Append(calls, "makeDBConnection")
    /\ \E outcome \in {"ok", "OperationalError"} :
          IF outcome = "ok"
          THEN /\ log' = Append(log, LogRec("INFO", "DB connection established and validated.", ""))
               /\ pc' = "makeGCPConnection"
               /\ UNCHANGED <<exitStatus, exitMsg>>
          ELSE /\ log' = log \o <<LogRec("ERROR", "Error Message", outcome),
                                   LogRec("ERROR", "Failed to establish DB connection.", "")>>
               /\ SysExit(DBExitMsg)
    /\ UNCHANGED configVars
    /\ UNCHANGED dataVars

\* makeGCPConnection: the client is built from the key (ValueError on a
\* malformed key), bucket.exists() answers or raises RefreshError.
MakeGCPConnection ==
    /\ pc = "makeGCPConnection"
    /\ calls' = Append(calls, "makeGCPConnection")
    /\ \E outcome \in {"ok", "NoBucket", "RefreshError", "ValueError"} :
          CASE outcome = "ok" ->
                 /\ log' = log \o <<LogRec("INFO", "Bucket found", StrOf(config.targetBucketName)),
                                     LogRec("INFO", "GCP connection established and validated.", "")>>
                 /\ pc' = "courseQueryMaker"
                 /\ UNCHANGED <<exitStatus, exitMsg>>
            [] outcome = "NoBucket" ->
                 /\ log' = Append(log, LogRec("ERROR", "Bucket not found", StrOf(config.targetBucketName)))
                 /\ SysExit(BucketExitMsg)
            [] outcome = "RefreshError" ->
                 /\ log' = log \o <<LogRec("ERROR", "Account Error", outcome),
                                     LogRec("ERROR", "Failed to find GCP service account. Check GCP JSON Credentials.", "")>>
                 /\ SysExit(GCPExitMsg)
            [] outcome = "ValueError" ->
                 /\ log' = log \o <<LogRec("ERROR", "Value Error", outcome),
                                     LogRec("ERROR", "Failed to establish GCP connection.", "")>>
                 /\ SysExit(GCPExitMsg)
    /\ UNCHANGED configVars
    /\ UNCHANGED dataVars

----------------------------------------------------------------------------
(* Queries *)

\* The course rows considered: two ids, one of them under two names.
CourseRows == {[id |-> 7, name |-> "Intro"], [id |-> 101, name |-> "Intro"],
               [id |-> 101, name |-> "Stats"]}
CourseIDs  == {r.id : r \in CourseRows}
RecordIDs  == CourseIDs \cup {999}

\* The tables the course-list query can return: rows (id, name), in the
\* order the database returns them.
CourseTables ==
    UNION { [1..n -> CourseRows] : n \in 0..MaxCourses }

\* The tables the course-data query can return: each row carries the
\* DataFrame's RangeIndex label and its CourseID column.
RecordTables ==
    UNION { { [i \in 1..n |-> [index |-> i - 1, CourseID |-> f[i]]] :
                f \in [1..n -> RecordIDs] } : n \in 0..MaxRecords }

\* Variant: the empty course list is not detected.
IsEmpty_Never(df) == FALSE

\* len(courseQueryDF) == 0
IsEmpty(df) == Len(df) = 0

\* courseQueryMaker: pd.read_sql returns a table or raises OperationalError.
CourseQueryMaker ==
    /\ pc = "courseQueryMaker"
    /\ calls' = Append(calls, "courseQueryMaker")
    /\ \/ \E df \in CourseTables :
             /\ courseDF' = df
             /\ log' = Append(log, LogRec("INFO", "Courses retrieved...", ""))
             /\ pc' = "checkCourses"
             /\ UNCHANGED <<exitStatus, exitMsg>>
       \/ /\ log' = log \o <<LogRec("ERROR", "Error Message", "OperationalError"),
                               LogRec("ERROR", "Failed to retrieve Course List.", "")>>
          /\ SysExit(CourseExitMsg)
          /\ UNCHANGED courseDF
    /\ UNCHANGED configVars
    /\ UNCHANGED <<retrieveDF, rowIdx, allSliced, allSaved, uploads, bucket>>

\* main, lines 250-252
CheckCourses ==
    /\ pc = "checkCourses"
    /\ IF IsEmpty(courseDF)
       THEN /\ log' = Append(log, LogRec("INFO", "No courses to be retrieved.", ""))
            /\ SysExit(NoCoursesMsg)
       ELSE /\ pc' = "retrieveQueryMaker"
            /\ UNCHANGED <<log, exitStatus, exitMsg>>
    /\ UNCHANGED configVars
    /\ UNCHANGED pipelineVars

\* retrieveQueryMaker: pd.read_sql returns a table or raises OperationalError.
RetrieveQueryMaker ==
    /\ pc = "retrieveQueryMaker"
    /\ calls' = Append(calls, "retrieveQueryMaker")
    /\ \/ \E df \in RecordTables :
             /\ retrieveDF' = df
             /\ log' = Append(log, LogRec("INFO", "Course Data retrieved...", ""))
             /\ pc' = "sliceAndPushToGCP"
             /\ UNCHANGED <<exitStatus, exitMsg>>
       \/ /\ log' = log \o <<LogRec("ERROR", "Error Message", "OperationalError"),
                               LogRec("ERROR", "Failed to retrieve Course Data.", "")>>
          /\ SysExit(RetrieveExitMsg)
          /\ UNCHANGED retrieveDF
    /\ UNCHANGED configVars
    /\ UNCHANGED <<courseDF, rowIdx, allSliced, allSaved, uploads, bucket>>

----------------------------------------------------------------------------
(* sliceAndPushToGCP *)

\* Variant: the rows are iterated last to first.
RowAt_Reversed(df, i) == df[Len(df) + 1 - i]

\* for _, row in courseDF.iterrows(): the i-th row iterated
RowAt(df, i) == df[i]

\* f'{courseID} - {courseName}.tsv'
OutputFilename(courseID, courseName) ==
    ToString(courseID) \o " - " \o courseName \o ".tsv"

\* Variant: the comparison is inverted.
Slice_Inverted(df, courseID) == SelectSeq(df, LAMBDA r : r.CourseID # courseID)

\* retrieveDF[retrieveDF['CourseID'] == courseID]
Slice(df, courseID) == SelectSeq(df, LAMBDA r : r.CourseID = courseID)

\* Variant: the flag follows the last upload only.
SavedAfter_LastOnly(saved, outcome) == outcome # "NotFound"

\* allSaved after one iteration: the NotFound handler clears it.
SavedAfter(saved, outcome) == IF outcome = "NotFound" THEN FALSE ELSE saved

\* What upload_from_string can do: store the object, raise NotFound, or
\* raise another API error (Forbidden stands for all of those).
UploadOutcomes == {"ok", "NotFound", "Forbidden"}

\* An except clause of the loop body catches the error raised.
Caught(outcome) == outcome = "NotFound"

\* sliceAndPushToGCP, line 114
SliceAndPushEnter ==
    /\ pc = "sliceAndPushToGCP"
    /\ calls' = Append(calls, "sliceAndPushToGCP")
    /\ allSliced' = TRUE
    /\ allSaved' = TRUE
    /\ rowIdx' = 0
    /\ pc' = "sliceLoop"
    /\ UNCHANGED configVars
    /\ UNCHANGED <<log, courseDF, retrieveDF, uploads, bucket, exitStatus, exitMsg>>

\* sliceAndPushToGCP, lines 116-133: one iteration of the loop.  An error
\* no except clause catches leaves the loop, the function and main: the
\* interpreter prints the traceback and exits with status 1.
SliceAndPushRow ==
    /\ pc = "sliceLoop"
    /\ rowIdx < Len(courseDF)
    /\ LET row            == RowAt(courseDF, rowIdx + 1)
           outputFilename == OutputFilename(row.id, row.name)
           saveDF         == Slice(retrieveDF, row.id)
       IN  \E outcome \in UploadOutcomes :
             /\ uploads' = Append(uploads, [name |-> outputFilename, rows |-> saveDF,
                                            outcome |-> outcome])
             /\ bucket' = IF outcome = "ok"
                          THEN {b \in bucket : b.name # outputFilename}
                                 \cup {[name |-> outputFilename, rows |-> saveDF]}
                          ELSE bucket
             /\ IF outcome = "ok" \/ Caught(outcome)
                THEN /\ log' = log \o <<LogRec("INFO", "Slicing", outputFilename),
                                         LogRec("INFO", "Saving to GCP", outputFilename)>>
                                   \o (IF outcome = "ok" THEN <<>>
                                       ELSE <<LogRec("ERROR", "Error Message", outcome),
                                              LogRec("ERROR", "Failed to upload Course Data", outputFilename)>>)
                     /\ allSaved' = SavedAfter(allSaved, outcome)
                     /\ rowIdx' = rowIdx + 1
                     /\ UNCHANGED <<pc, exitStatus, exitMsg>>
                ELSE /\ log' = log \o <<LogRec("INFO", "Slicing", outputFilename),
                                         LogRec("INFO", "Saving to GCP", outputFilename)>>
                     /\ pc' = "crashed"
                     /\ exitStatus' = 1
                     /\ UNCHANGED <<allSaved, rowIdx, exitMsg>>
    /\ UNCHANGED configVars
    /\ UNCHANGED <<calls, courseDF, retrieveDF, allSliced>>

\* sliceAndPushToGCP, line 135
SliceAndPushReturn ==
    /\ pc = "sliceLoop"
    /\ rowIdx = Len(courseDF)
    /\ pc' = "report"
    /\ UNCHANGED configVars
    /\ UNCHANGED pipelineVars
    /\ UNCHANGED <<log, exitStatus, exitMsg>>

\* main, lines 269-274, and the normal end of the process
Report ==
    /\ pc = "report"
    /\ log' = log \o (IF ~allSliced
                       THEN <<LogRec("WARNING", "Not all course data could be sliced correctly.", "")>>
                       ELSE <<>>)
                  \o (IF ~allSaved
                       THEN <<LogRec("WARNING", "Not all course data could be saved to GCP correctly.", "")>>
                       ELSE <<>>)
    /\ pc' = "done"
    /\ exitStatus' = 0
    /\ UNCHANGED configVars
    /\ UNCHANGED pipelineVars
    /\ UNCHANGED exitMsg

----------------------------------------------------------------------------
(* The run *)

\* The process is started: Config() holds its defaults, nothing was logged.
\* The locals envImportSuccess, allSliced and allSaved do not exist yet; they
\* are shown with the value their first assignment gives them (lines 192, 114).
Init ==
    /\ env \in Environments
    /\ pc = "LOG_LEVEL"
    /\ config = ConfigDefaults
    /\ envImportSuccess = TRUE
    /\ rootLevel = INFO
    /\ log = <<>>
    /\ fetched = <<>>
    /\ calls = <<>>
    /\ courseDF = <<>>
    /\ retrieveDF = <<>>
    /\ rowIdx = 0
    /\ allSliced = TRUE
    /\ allSaved = TRUE
    /\ uploads = <<>>
    /\ bucket = {}
    /\ exitStatus = -1
    /\ exitMsg = ""

Next ==
    \/ SetLogLevel
    \/ FetchBucket
    \/ FetchMonths
    \/ FetchQueryFolder
    \/ FetchQueryTemplate
    \/ FetchDBParam
    \/ FetchGCPKey
    \/ CheckImport
    \/ MakeDBConnection
    \/ MakeGCPConnection
    \/ CourseQueryMaker
    \/ CheckCourses
    \/ RetrieveQueryMaker
    \/ SliceAndPushEnter
    \/ SliceAndPushRow
    \/ SliceAndPushReturn
    \/ Report

Spec == Init /\ [][Next]_vars

Terminated == pc \in {"done", "exited", "crashed"}

TypeOK ==
    /\ pc \in STRING
    /\ exitStatus \in {-1, 0, 1}
    /\ envImportSuccess \in BOOLEAN
    /\ allSaved \in BOOLEAN

----------------------------------------------------------------------------
(* Properties *)

Range(q) == {q[i] : i \in DOMAIN q}
Count(q, x) == Cardinality({i \in DOMAIN q : q[i] = x})
IsPrefix(p, q) == Len(p) <= Len(q) /\ \A i \in DOMAIN p : p[i] = q[i]

\* The positions of setFromEnv before its final check.
FetchPcs == {"LOG_LEVEL", "GCLOUD_BUCKET", "NUMBER_OF_MONTHS", "QUERY_FOLDER",
             "COURSE_QUERY", "RETRIEVE_QUERY", "DB_NAME", "DB_USER",
             "DB_PASSWORD", "DB_HOST", "DB_PORT", "GCP_KEY"}

\* A record that setFromEnv or configFetch logs for a failed cast or validation.
IsFieldFailure(rec) == rec.msg \in {"Casting error", "Validation error"}

ConnectionAttempted ==
    "makeDBConnection" \in Range(calls) \/ "makeGCPConnection" \in Range(calls)

\* C1, as stated: whenever the cast or the validation of some configuration
\* field failed, LOG_LEVEL included, no connection is attempted.
C1_AnyFieldFailureAborts ==
    (\E i \in DOMAIN log : IsFieldFailure(log[i])) => ~ConnectionAttempted

\* C1, amended: whenever the cast or the validation of a configuration field
\* other than LOG_LEVEL failed, the run is still inside setFromEnv or has
\* exited from it with the configuration message, and neither
\* makeDBConnection nor makeGCPConnection was called.
C1_FetchFailureAborts ==
    (\E i \in DOMAIN log : IsFieldFailure(log[i]) /\ log[i].item # "LOG_LEVEL")
        => /\ ~ConnectionAttempted
           /\ calls = <<"setFromEnv">>
           /\ pc \in FetchPcs \cup {"checkImport", "exited"}
           /\ pc = "exited" => exitMsg = ConfigExitMsg /\ exitStatus = 1

C1_Witness ==
    /\ pc = "exited"
    /\ exitMsg = ConfigExitMsg
    /\ \E i \in DOMAIN log : log[i] = LogRec("ERROR", "Casting error", "NUMBER_OF_MONTHS")
    /\ Truthy(config.gcpParams)

DBCredentialVars == {"DB_HOST", "DB_USER", "DB_PASSWORD", "DB_NAME"}

\* C2: when one of DB_HOST, DB_USER, DB_PASSWORD, DB_NAME is not set, the load
\* is marked failed when the fields have been fetched, no connection is
\* attempted, and the run ends with the configuration-error exit.
C2_MissingCredentialAborts ==
    \A v \in DBCredentialVars :
        v \notin DOMAIN env
            => /\ pc \notin FetchPcs => envImportSuccess = FALSE
               /\ ~ConnectionAttempted
               /\ Terminated => pc = "exited" /\ exitMsg = ConfigExitMsg

\* The configFetch calls of a complete setFromEnv, in order.
AllFetches(withQueries) ==
    <<"GCLOUD_BUCKET", "NUMBER_OF_MONTHS", "QUERY_FOLDER">>
      \o (IF withQueries THEN <<"COURSE_QUERY", "RETRIEVE_QUERY">> ELSE <<>>)
      \o <<"DB_NAME", "DB_USER", "DB_PASSWORD", "DB_HOST", "DB_PORT", "GCP_KEY">>

\* C3: setFromEnv fetches the fields in its fixed order whatever failed
\* before; the query filenames are left out exactly when the folder is
\* invalid; when setFromEnv exits or returns every field was fetched, GCP_KEY
\* last; and envImportSuccess, once false, stays false.
C3_AllFieldsChecked ==
    /\ [](LET expected == AllFetches(config.defaultQueryFolder.t = "str")
          IN  /\ IsPrefix(fetched, expected)
              /\ pc \notin FetchPcs => fetched = expected)
    /\ [][envImportSuccess = FALSE => envImportSuccess' = FALSE]_vars

C3_Witness ==
    /\ pc = "exited"
    /\ exitMsg = ConfigExitMsg
    /\ config.numberOfMonths = PyNone
    /\ Len(fetched) = 11
    /\ Truthy(config.queryTemplateDict.course)
    /\ Truthy(config.dbParams.PORT)
    /\ Truthy(config.gcpParams)

\* courseQueryMaker returned a table (it did not exit).
CourseListReturned ==
    /\ "courseQueryMaker" \in Range(calls)
    /\ exitMsg # CourseExitMsg

\* C4: after an empty course list the run ends with the "no courses" exit
\* and neither retrieveQueryMaker nor sliceAndPushToGCP is called; after a
\* non-empty one retrieveQueryMaker is called exactly once.
C4_EmptyCourseList ==
    /\ Count(calls, "retrieveQueryMaker") <= 1
    /\ exitMsg = NoCoursesMsg => CourseListReturned /\ Len(courseDF) = 0
    /\ CourseListReturned /\ Len(courseDF) = 0
         => /\ "retrieveQueryMaker" \notin Range(calls)
            /\ "sliceAndPushToGCP" \notin Range(calls)
            /\ pc \in {"checkCourses", "exited"}
            /\ pc = "exited" => exitMsg = NoCoursesMsg /\ exitStatus = 1
    /\ CourseListReturned /\ Len(courseDF) > 0 /\ Terminated
         => Count(calls, "retrieveQueryMaker") = 1

C4_Witness ==
    /\ pc = "exited"
    /\ exitMsg = NoCoursesMsg
    /\ Len(courseDF) = 0
    /\ calls[Len(calls)] = "courseQueryMaker"

\* C5: once the upload loop made an attempt, whatever error an upload
\* raised, the run ends only after one attempt per descriptor and with the
\* end-of-run report.
C5_NoUploadErrorBlocks ==
    Terminated /\ uploads # <<>>
        => /\ Len(uploads) = Len(courseDF)
           /\ pc = "done"

NotSavedWarning ==
    LogRec("WARNING", "Not all course data could be saved to GCP correctly.", "")

\* C6: when sliceAndPushToGCP has returned, allSaved is false exactly when
\* some upload raised NotFound and allSliced is true; main logs the "not all
\* saved" warning once when allSaved is false and never otherwise, and only
\* at the end of the run, which then has exit status 0.
C6_AllSavedFlag ==
    /\ pc \in {"report", "done"}
         => /\ allSliced
            /\ ~allSaved <=> \E i \in DOMAIN uploads : uploads[i].outcome = "NotFound"
    /\ Count(log, NotSavedWarning) = IF pc = "done" /\ ~allSaved THEN 1 ELSE 0
    /\ pc = "done" => exitStatus = 0

C6_Witness ==
    /\ pc = "done"
    /\ ~allSaved
    /\ \E i \in DOMAIN uploads : uploads[i].outcome = "ok" /\ uploads[i].rows = <<>>
    /\ uploads[Len(uploads)].outcome = "ok"

\* C7: the i-th upload is named "<id> - <name>.tsv" after the i-th course
\* row and carries exactly the retrieveDF rows whose CourseID is that id, in
\* their retrieveDF order; every stored object is such an upload; a record
\* whose CourseID is no course's id is in no upload; allSaved is cleared only
\* by a NotFound; and the loop leaves retrieveDF as it was.
C7_SliceContents ==
    /\ [](/\ \A i \in DOMAIN uploads :
               LET d == courseDF[i]
                   u == uploads[i]
               IN  /\ u.name = ToString(d.id) \o " - " \o d.name \o ".tsv"
                   /\ \A m \in DOMAIN u.rows :
                         /\ u.rows[m].CourseID = d.id
                         /\ u.rows[m].index + 1 \in DOMAIN retrieveDF
                         /\ retrieveDF[u.rows[m].index + 1] = u.rows[m]
                   /\ \A m, n \in DOMAIN u.rows :
                         m < n => u.rows[m].index < u.rows[n].index
                   /\ \A j \in DOMAIN retrieveDF :
                         retrieveDF[j].CourseID = d.id => retrieveDF[j] \in Range(u.rows)
          /\ \A b \in bucket :
               \E i \in DOMAIN uploads :
                   /\ uploads[i].outcome = "ok"
                   /\ uploads[i].name = b.name
                   /\ uploads[i].rows = b.rows
          /\ \A j \in DOMAIN retrieveDF :
               retrieveDF[j].CourseID \notin {courseDF[i].id : i \in DOMAIN courseDF}
                   => \A i \in DOMAIN uploads : retrieveDF[j] \notin Range(uploads[i].rows)
          /\ pc \in {"sliceLoop", "report", "done"} /\ ~allSaved
               => \E i \in DOMAIN uploads : uploads[i].outcome = "NotFound")
    /\ [][pc = "sliceLoop" => retrieveDF' = retrieveDF]_vars

C7_Witness ==
    /\ pc = "done"
    /\ allSaved
    /\ Len(retrieveDF) = 2
    /\ retrieveDF[1].CourseID = 999
    /\ \E i \in DOMAIN uploads :
          /\ uploads[i].name = "101 - Intro.tsv"
          /\ uploads[i].rows = <<[index |-> 1, CourseID |-> 101]>>
          /\ [name |-> "101 - Intro.tsv", rows |-> uploads[i].rows] \in bucket

\* C8: while no upload raised an error other than NotFound, the k-th upload
\* attempt is the one for the k-th course row, and when the loop has ended
\* there was exactly one attempt per course row, also for a course with no
\* records.
C8_OneUploadPerCourseInOrder ==
    (\A i \in DOMAIN uploads : uploads[i].outcome \in {"ok", "NotFound"})
        => /\ pc = "sliceLoop" => Len(uploads) = rowIdx
           /\ pc \in {"report", "done"} => Len(uploads) = Len(courseDF)
           /\ \A k \in DOMAIN uploads :
                 /\ k \in DOMAIN courseDF
                 /\ uploads[k].name = OutputFilename(courseDF[k].id, courseDF[k].name)

C8_Witness ==
    /\ pc = "done"
    /\ Len(courseDF) = 2
    /\ courseDF[1].id = 101
    /\ courseDF[2].id = 7
    /\ Len(uploads) = 2
    /\ uploads[1].outcome = "NotFound"
    /\ uploads[2].rows = <<>>

StepOrder == <<"setFromEnv", "makeDBConnection", "makeGCPConnection",
               "courseQueryMaker", "retrieveQueryMaker", "sliceAndPushToGCP">>

\* The step at which each handled fatal failure exits.
FatalStep ==
    (ConfigExitMsg :> 1) @@ (DBExitMsg :> 2) @@ (BucketExitMsg :> 3) @@
    (GCPExitMsg :> 3) @@ (CourseExitMsg :> 4) @@ (NoCoursesMsg :> 4) @@
    (RetrieveExitMsg :> 5)

\* The error records that precede a handled fatal exit.
FatalRecords ==
    {"Failed to establish DB connection.", "Bucket not found",
     "Failed to find GCP service account. Check GCP JSON Credentials.",
     "Failed to establish GCP connection.", "Failed to retrieve Course List.",
     "No courses to be retrieved.", "Failed to retrieve Course Data."}

\* C9: the steps are called in the fixed order, each at most once; a
\* handled fatal failure ends the process with a non-zero status at the step
\* that met it, with no later step called and no upload attempted; and a
\* process that has ended takes no further step.
C9_StepOrderAndFatalExits ==
    /\ [](/\ IsPrefix(calls, StepOrder)
          /\ pc = "exited"
               => /\ exitStatus # 0
                  /\ exitMsg \in DOMAIN FatalStep
                  /\ Len(calls) = FatalStep[exitMsg]
                  /\ uploads = <<>>
          /\ (\E i \in DOMAIN log : log[i].msg \in FatalRecords) => pc = "exited"
          /\ pc \notin FetchPcs \cup {"checkImport"} /\ ~envImportSuccess => pc = "exited")
    /\ [][~Terminated]_vars

C9_Witness ==
    /\ pc = "exited"
    /\ exitMsg = RetrieveExitMsg
    /\ exitStatus = 1
    /\ Len(calls) = 5
    /\ Len(courseDF) = 2

LogLevelWarning == LogRec("WARNING", "Validation error", "LOG_LEVEL")

\* The Config field that holds what was fetched under an environment name.
FieldOf(name) ==
    CASE name = "GCLOUD_BUCKET"    -> config.targetBucketName
      [] name = "NUMBER_OF_MONTHS" -> config.numberOfMonths
      [] name = "QUERY_FOLDER"     -> config.defaultQueryFolder
      [] name = "COURSE_QUERY"     -> config.queryTemplateDict.course
      [] name = "RETRIEVE_QUERY"   -> config.queryTemplateDict.retrieve
      [] name = "DB_NAME"          -> config.dbParams.NAME
      [] name = "DB_USER"          -> config.dbParams.USER
      [] name = "DB_PASSWORD"      -> config.dbParams.PASSWORD
      [] name = "DB_HOST"          -> config.dbParams.HOST
      [] name = "DB_PORT"          -> config.dbParams.PORT
      [] name = "GCP_KEY"          -> config.gcpParams

\* C10: a LOG_LEVEL the logger rejects is warned about once, leaves the root
\* level at INFO and the load unmarked (the load is marked failed only when
\* a fetched field is empty or None), and the remaining fields are fetched;
\* and when QUERY_FOLDER is invalid neither query filename is fetched and
\* the load is marked failed.
C10_LogLevelAndQueryFolder ==
    /\ pc # "LOG_LEVEL" /\ "LOG_LEVEL" \in DOMAIN env /\ env["LOG_LEVEL"] = "bogus"
         => Count(log, LogLevelWarning) = 1
    /\ Count(log, LogLevelWarning) > 0 => rootLevel = INFO
    /\ pc = "GCLOUD_BUCKET" => envImportSuccess /\ fetched = <<>>
    /\ ~envImportSuccess => \E f \in Range(fetched) : ~Truthy(FieldOf(f))
    /\ pc \notin FetchPcs => {"GCLOUD_BUCKET", "DB_PORT", "GCP_KEY"} \subseteq Range(fetched)
    /\ "QUERY_FOLDER" \in Range(fetched) /\ config.defaultQueryFolder = PyNone
         => /\ "COURSE_QUERY" \notin Range(fetched)
            /\ "RETRIEVE_QUERY" \notin Range(fetched)
            /\ ~envImportSuccess

C10_Witness ==
    /\ pc = "exited"
    /\ "LOG_LEVEL" \in DOMAIN env
    /\ env["LOG_LEVEL"] = "bogus"
    /\ Count(log, LogLevelWarning) = 1
    /\ config.defaultQueryFolder = PyNone
    /\ Len(fetched) = 9
    /\ \A f \in Range(fetched) \ {"QUERY_FOLDER"} : Truthy(FieldOf(f))

====
